---- MODULE Spec2Model ----
(***************************************************************************)
(* Model of the financial rule engine (book/rules.py), its orchestrator    *)
(* (book/model.py) and the upload endpoint (book/app.py).                  *)
(*                                                                         *)
(* Every function of the program is stateless, so the state machine is a   *)
(* single call: an action picks the arguments of one function, evaluates   *)
(* the function as the code does and records the arguments and the         *)
(* outcome (a returned value or a raised exception).                       *)
(*                                                                         *)
(* Python numbers are modelled as exact rationals n/d (d > 0, reduced);    *)
(* the rounding of IEEE doubles is not modelled.                           *)
(***************************************************************************)
EXTENDS Integers, Sequences, FiniteSets, TLC

VARIABLES pc, fn, data, financial_index, ret, calls, upload, response

vars == <<pc, fn, data, financial_index, ret, calls, upload, response>>

(***************************************************************************)
(* Bounds of the model.                                                    *)
(***************************************************************************)
\* longest `financials` list
MaxLen == 3
\* numeric fields range over n/d with |n| <= MaxNum, d in Dens
MaxNum == 2
Dens == {1, 2}

(***************************************************************************)
(* Numbers.                                                                *)
(***************************************************************************)
Abs(x) == IF x < 0 THEN -x ELSE x

RECURSIVE GCD(_, _)
GCD(a, b) == IF b = 0 THEN a ELSE GCD(b, a % b)

\* The number n/d (d # 0) as a value, reduced, with a positive denominator.
Num(n, d) ==
    LET g == GCD(Abs(n), Abs(d))
        s == IF d < 0 THEN -1 ELSE 1
    IN  [t |-> "num", n |-> (s * n) \div g, d |-> (s * d) \div g, s |-> ""]

IntV(n) == Num(n, 1)

\* Python's None, a missing dict key and a FLAGS member, as values.
NoneV == [t |-> "none", n |-> 0, d |-> 1, s |-> ""]
Absent == [t |-> "absent", n |-> 0, d |-> 1, s |-> ""]
Flag(x) == [t |-> "flag", n |-> 0, d |-> 1, s |-> x]

Add(a, b) == Num(a.n * b.d + b.n * a.d, a.d * b.d)
\* a / b for b # 0
Div(a, b) == Num(a.n * b.d, a.d * b.n)
IsZero(a) == a.n = 0
Geq(a, b) == a.n * b.d >= b.n * a.d
Leq(a, b) == a.n * b.d <= b.n * a.d

(***************************************************************************)
(* Outcomes of a call: a returned value or a raised exception.             *)
(***************************************************************************)
Return(v) == [st |-> "return", exc |-> "", msg |-> "", val |-> v]
Raise(e, m) == [st |-> "raise", exc |-> e, msg |-> m, val |-> NoneV]
NoRet == [st |-> "none", exc |-> "", msg |-> "", val |-> NoneV]

(***************************************************************************)
(* JSON documents.  A dict is a record holding every key the code reads;   *)
(* a key the dict does not have holds Absent (t = "absent").  The tag t    *)
(* of a structure is "dict", "none" (JSON null), "absent" (no such key)    *)
(* or the name of another JSON type ("int", "list").                       *)
(***************************************************************************)
LineItems(netRevenue) == [t |-> "dict", netRevenue |-> netRevenue]
NoLineItems(t) == [t |-> t, netRevenue |-> Absent]

Pnl(ni, pbit, dep, ie, li) ==
    [t |-> "dict", netIncome |-> ni, profitBeforeInterestAndTax |-> pbit,
     depreciation |-> dep, interestExpenses |-> ie, lineItems |-> li]
NoPnl(t) ==
    [t |-> t, netIncome |-> Absent, profitBeforeInterestAndTax |-> Absent,
     depreciation |-> Absent, interestExpenses |-> Absent,
     lineItems |-> NoLineItems("absent")]

Bs(ltb, stb) ==
    [t |-> "dict", longTermBorrowings |-> ltb, shortTermBorrowings |-> stb]
NoBs(t) == [t |-> t, longTermBorrowings |-> Absent, shortTermBorrowings |-> Absent]

\* nature: "STANDALONE", another string, or "absent" (no such key)
Entry(nature, pnl, bs) == [t |-> "dict", nature |-> nature, pnl |-> pnl, bs |-> bs]
\* an entry of `financials` that is not a mapping (a number)
IntEntry == [t |-> "int", nature |-> "absent", pnl |-> NoPnl("absent"), bs |-> NoBs("absent")]
\* the entry {}
EmptyEntry == Entry("absent", NoPnl("absent"), NoBs("absent"))

\* `financials`: a list of entries, null, a number, or no such key
List(items) == [t |-> "list", items |-> items]
NoList(t) == [t |-> t, items |-> <<>>]

Doc(financials) == [t |-> "dict", financials |-> financials]
\* a document that is not a mapping: None (JSON null) or a JSON list
NoDoc(t) == [t |-> t, financials |-> NoList("absent")]

\* the literal {} used as the default of dict.get in rules.py
EmptyPnlDict == Pnl(Absent, Absent, Absent, Absent, NoLineItems("absent"))
EmptyLineItemsDict == LineItems(Absent)
EmptyBsDict == Bs(Absent, Absent)

\* dict.get(key, default) on the value v stored under the key
Get(v, default) == IF v.t = "absent" THEN default ELSE v

\* the default 0.0 of the numeric lookups
Zero == IntV(0)

(***************************************************************************)
(* rules.py: the Selector.                                                 *)
(***************************************************************************)
\* mutant: the loop keeps the last STANDALONE entry instead of the first
RECURSIVE SelectorLoop_last(_, _)
SelectorLoop_last(items, i) ==
    IF i > Len(items) THEN Return(IntV(0))
    ELSE IF items[i].t # "dict"
         THEN Raise("AttributeError", "object has no attribute 'get'")
    ELSE LET rest == SelectorLoop_last(items, i + 1)
         IN  IF rest.st = "raise" THEN rest
             ELSE IF rest.val.n > 0 \/ items[i].nature # "STANDALONE" THEN rest
             ELSE Return(IntV(i - 1))

\* mutant: the loop skips the entries that are no mappings
RECURSIVE SelectorLoop_skip(_, _)
SelectorLoop_skip(items, i) ==
    IF i > Len(items) THEN Return(IntV(0))
    ELSE IF items[i].t = "dict" /\ items[i].nature = "STANDALONE"
         THEN Return(IntV(i - 1))
    ELSE SelectorLoop_skip(items, i + 1)

\* the for loop of latest_financial_index from position i (1-based) on
RECURSIVE SelectorLoop(_, _)
SelectorLoop(items, i) ==
    IF i > Len(items) THEN Return(IntV(0))
    ELSE IF items[i].t # "dict"
         THEN Raise("AttributeError", "object has no attribute 'get'")
    ELSE IF items[i].nature = "STANDALONE" THEN Return(IntV(i - 1))
    ELSE SelectorLoop(items, i + 1)

\* mutant: no check of a missing or null `financials`
latest_financial_index_nonullcheck(doc) ==
    IF doc.t # "dict"
    THEN Raise("ValueError", "Invalid data: expected a dictionary.")
    ELSE IF doc.financials.t # "list"
    THEN Raise("TypeError", "object is not iterable")
    ELSE SelectorLoop(doc.financials.items, 1)

latest_financial_index(doc) ==
    IF doc.t # "dict"
    THEN Raise("ValueError", "Invalid data: expected a dictionary.")
    ELSE IF doc.financials.t \in {"absent", "none"}
    THEN Raise("ValueError", "Invalid data: 'financials' key is missing or None.")
    ELSE IF doc.financials.t # "list"
    THEN Raise("TypeError", "object is not iterable")
    ELSE SelectorLoop(doc.financials.items, 1)

(***************************************************************************)
(* rules.py: the metric derivations.                                       *)
(***************************************************************************)
NoGet == "object has no attribute 'get'"

\* data.get("financials")[financial_index]
FinancialEntry(doc, idx) ==
    IF doc.t # "dict" THEN Raise("AttributeError", NoGet)
    ELSE IF doc.financials.t # "list"
    THEN Raise("TypeError", "object is not subscriptable")
    ELSE LET n == Len(doc.financials.items)
             k == IF idx < 0 THEN idx + n ELSE idx
         IN  IF k < 0 \/ k >= n
             THEN Raise("IndexError", "list index out of range")
             ELSE Return(doc.financials.items[k + 1])

\* financial_entry.get("pnl", {}).get("lineItems", {}).get("netRevenue", 0.0)
NetRevenue(financial_entry) ==
    IF financial_entry.t # "dict" THEN Raise("AttributeError", NoGet)
    ELSE LET pnl == Get(financial_entry.pnl, EmptyPnlDict)
         IN  IF pnl.t # "dict" THEN Raise("AttributeError", NoGet)
             ELSE LET lineItems == Get(pnl.lineItems, EmptyLineItemsDict)
                  IN  IF lineItems.t # "dict" THEN Raise("AttributeError", NoGet)
                      ELSE Return(Get(lineItems.netRevenue, Zero))

\* mutant: no guard of the division
profit_margin_noguard(doc, idx) ==
    LET financial_entry == FinancialEntry(doc, idx)
    IN  IF financial_entry.st = "raise" THEN financial_entry
        ELSE IF financial_entry.val.t # "dict" THEN Raise("AttributeError", NoGet)
        ELSE LET pnl == Get(financial_entry.val.pnl, EmptyPnlDict)
             IN  IF pnl.t # "dict" THEN Raise("AttributeError", NoGet)
                 ELSE LET net_income == Get(pnl.netIncome, Zero)
                          revenue == NetRevenue(financial_entry.val)
                      IN  IF revenue.st = "raise" THEN revenue
                          ELSE IF IsZero(revenue.val)
                          THEN Raise("ZeroDivisionError", "division by zero")
                          ELSE Return(Div(net_income, revenue.val))

profit_margin(doc, idx) ==
    LET financial_entry == FinancialEntry(doc, idx)
    IN  IF financial_entry.st = "raise" THEN financial_entry
        ELSE IF financial_entry.val.t # "dict" THEN Raise("AttributeError", NoGet)
        ELSE LET pnl == Get(financial_entry.val.pnl, EmptyPnlDict)
             IN  IF pnl.t # "dict" THEN Raise("AttributeError", NoGet)
                 ELSE LET net_income == Get(pnl.netIncome, Zero)
                          revenue == NetRevenue(financial_entry.val)
                      IN  IF revenue.st = "raise" THEN revenue
                          ELSE IF IsZero(revenue.val) THEN Return(Zero)
                          ELSE Return(Div(net_income, revenue.val))

total_revenue(doc, idx) ==
    LET financial_entry == FinancialEntry(doc, idx)
    IN  IF financial_entry.st = "raise" THEN financial_entry
        ELSE NetRevenue(financial_entry.val)

total_borrowing(doc, idx) ==
    LET financial_entry == FinancialEntry(doc, idx)
    IN  IF financial_entry.st = "raise" THEN financial_entry
        ELSE IF financial_entry.val.t # "dict" THEN Raise("AttributeError", NoGet)
        ELSE LET balance_sheet == Get(financial_entry.val.bs, EmptyBsDict)
             IN  IF balance_sheet.t # "dict" THEN Raise("AttributeError", NoGet)
                 ELSE LET long_term_borrowing == Get(balance_sheet.longTermBorrowings, Zero)
                          short_term_borrowing == Get(balance_sheet.shortTermBorrowings, Zero)
                          total_borrowings == Add(long_term_borrowing, short_term_borrowing)
                          revenue == total_revenue(doc, idx)
                      IN  IF revenue.st = "raise" THEN revenue
                          ELSE IF IsZero(revenue.val) THEN Return(Zero)
                          ELSE Return(Div(total_borrowings, revenue.val))

\* denominator = interest_expenses + 1
IscrDenominator(pnl) == Add(Get(pnl.interestExpenses, Zero), IntV(1))

iscr(doc, idx) ==
    LET financial_entry == FinancialEntry(doc, idx)
    IN  IF financial_entry.st = "raise" THEN financial_entry
        ELSE IF financial_entry.val.t # "dict" THEN Raise("AttributeError", NoGet)
        ELSE LET pnl == Get(financial_entry.val.pnl, EmptyPnlDict)
             IN  IF pnl.t # "dict" THEN Raise("AttributeError", NoGet)
                 ELSE LET profit_before_interest_and_tax ==
                              Get(pnl.profitBeforeInterestAndTax, Zero)
                          depreciation == Get(pnl.depreciation, Zero)
                          numerator ==
                              Add(Add(profit_before_interest_and_tax, depreciation), IntV(1))
                          denominator == IscrDenominator(pnl)
                      IN  IF IsZero(denominator)
                          THEN Raise("ZeroDivisionError", "division by zero")
                          ELSE Return(Div(numerator, denominator))

(***************************************************************************)
(* rules.py: the flag classifiers.                                         *)
(***************************************************************************)
\* the names bound at module level in rules.py (it imports nothing)
RulesGlobals ==
    {"latest_financial_index", "profit_margin", "total_revenue", "total_borrowing",
     "iscr", "iscr_flag", "total_revenue_5cr_flag", "borrowing_to_revenue_flag"}

\* the expression FLAGS.<member>: a lookup of the global name FLAGS
FLAGS(member) ==
    IF "FLAGS" \in RulesGlobals THEN Return(Flag(member))
    ELSE Raise("NameError", "name 'FLAGS' is not defined")

IscrGreenMin == 2
RevenueGreenMin == 50000000
\* 0.25
BorrowingGreenMax == Num(25, 100)

iscr_flag(doc, idx) ==
    LET is_ratio == iscr(doc, idx)
    IN  IF is_ratio.st = "raise" THEN is_ratio
        ELSE IF Geq(is_ratio.val, IntV(IscrGreenMin)) THEN FLAGS("GREEN")
        ELSE FLAGS("RED")

total_revenue_5cr_flag(doc, idx) ==
    LET revenue == total_revenue(doc, idx)
    IN  IF revenue.st = "raise" THEN revenue
        ELSE IF Geq(revenue.val, IntV(RevenueGreenMin)) THEN FLAGS("GREEN")
        ELSE FLAGS("RED")

borrowing_to_revenue_flag(doc, idx) ==
    LET ratio == total_borrowing(doc, idx)
    IN  IF ratio.st = "raise" THEN ratio
        ELSE IF Leq(ratio.val, BorrowingGreenMax) THEN FLAGS("GREEN")
        ELSE FLAGS("AMBER")

(***************************************************************************)
(* model.py: the orchestrator.                                             *)
(***************************************************************************)
\* the number of required positional parameters of each function of rules.py
Arity(f) == IF f = "latest_financial_index" THEN 1 ELSE 2

\* a call f(*args) of a function of rules.py: Python binds the arguments
\* before it runs the body
Apply(f, args) ==
    IF Len(args) # Arity(f)
    THEN Raise("TypeError", "missing 1 required positional argument: 'financial_index'")
    ELSE CASE f = "latest_financial_index" -> latest_financial_index(args[1])
           [] f = "total_revenue" -> total_revenue(args[1], args[2])
           [] f = "profit_margin" -> profit_margin(args[1], args[2])

\* mutant: the metrics are evaluated before the Selector
AnalyzeRun_metricsfirst(doc) ==
    LET r1 == Apply("latest_financial_index", <<doc>>)
        r2 == Apply("total_revenue", <<doc>>)
    IN  IF r2.st = "raise"
        THEN [out |-> r2, calls |-> <<"total_revenue">>]
        ELSE [out |-> r1, calls |-> <<"total_revenue", "latest_financial_index">>]

\* the evaluation of analyze_financial_data: its outcome and the functions of
\* rules.py it called, in order.  The dict display evaluates its values top down.
AnalyzeRun(doc) ==
    LET r1 == Apply("latest_financial_index", <<doc>>)
        r2 == Apply("total_revenue", <<doc>>)
        r3 == Apply("profit_margin", <<doc>>)
    IN  IF r1.st = "raise"
        THEN [out |-> r1, calls |-> <<"latest_financial_index">>]
        ELSE IF r2.st = "raise"
        THEN [out |-> r2, calls |-> <<"latest_financial_index", "total_revenue">>]
        ELSE IF r3.st = "raise"
        THEN [out |-> r3,
              calls |-> <<"latest_financial_index", "total_revenue", "profit_margin">>]
        ELSE [out |-> Return([t |-> "str",
                              json |-> [latest_financial_index |-> r1.val,
                                        total_revenue |-> r2.val,
                                        profit_margin |-> r3.val]]),
              calls |-> <<"latest_financial_index", "total_revenue", "profit_margin">>]

analyze_financial_data(doc) == AnalyzeRun(doc).out

(***************************************************************************)
(* app.py: the upload endpoint.                                            *)
(***************************************************************************)
\* the uploaded file: none, bytes that are no JSON text, or the text of a document
NoFile == [t |-> "nofile", doc |-> NoDoc("none")]
BadJson == [t |-> "badjson", doc |-> NoDoc("none")]
JsonFile(doc) == [t |-> "json", doc |-> doc]

\* json.load(file)
json_load(file) ==
    IF file.t = "json" THEN Return(file.doc)
    ELSE Raise("JSONDecodeError", "Expecting value: line 1 column 1 (char 0)")

\* the classes of Python's exception hierarchy an exception is an instance of
Bases(exc) ==
    CASE exc = "JSONDecodeError" -> {"JSONDecodeError", "ValueError", "Exception"}
      [] OTHER -> {exc, "Exception"}

\* the except clauses of submit_data, in source order
Handlers == <<"ValueError", "JSONDecodeError", "Exception">>

\* the first except clause that matches the exception
RECURSIVE FirstHandler(_, _)
FirstHandler(exc, i) ==
    IF Handlers[i] \in Bases(exc) THEN Handlers[i] ELSE FirstHandler(exc, i + 1)

Response(body, status, handler) == [body |-> body, status |-> status, handler |-> handler]
NoResponse == Response("", 0, "")

submit_data(file) ==
    IF file.t = "nofile"
    THEN Response("Missing file: Please upload a file with the name 'data_file'.", 400, "")
    ELSE LET loaded == json_load(file)
             out == IF loaded.st = "raise" THEN loaded
                    ELSE analyze_financial_data(loaded.val)
         IN  IF out.st = "return" THEN Response("jsonify(result)", 200, "")
             ELSE LET h == FirstHandler(out.exc, 1)
                  IN  CASE h = "ValueError" -> Response(out.msg, 400, h)
                        [] h = "JSONDecodeError" -> Response("Invalid JSON format", 400, h)
                        [] h = "Exception" -> Response(out.msg, 500, h)

(***************************************************************************)
(* The inputs.                                                             *)
(***************************************************************************)
Nums == {Num(n, d) : n \in -MaxNum..MaxNum, d \in Dens}
NumOrAbsent == Nums \cup {Absent}
\* revenues at the threshold of total_revenue_5cr_flag
RevenueNums == NumOrAbsent \cup {IntV(RevenueGreenMin - 1), IntV(RevenueGreenMin)}

Natures == {"STANDALONE", "CONSOLIDATED", "absent"}

\* an entry that is no mapping, or a mapping whose `pnl` (`bs`) is absent, null
\* or a mapping
Shapes == {"int", "absent", "none", "dict"}
\* `lineItems` is absent, null or a mapping
Tags == {"absent", "none", "dict"}
\* the values a key takes inside a structure of tag t
Within(t, S) == IF t = "dict" THEN S ELSE {Absent}
TagsWithin(t) == IF t = "dict" THEN Tags ELSE {"absent"}

LineItemsOf(t, netRevenue) ==
    IF t = "dict" THEN LineItems(netRevenue) ELSE NoLineItems(t)
PnlOf(t, ni, pbit, dep, ie, li) ==
    IF t = "dict" THEN Pnl(ni, pbit, dep, ie, li) ELSE NoPnl(t)
BsOf(t, ltb, stb) == IF t = "dict" THEN Bs(ltb, stb) ELSE NoBs(t)
EntryOf(shape, pnl, bs) ==
    IF shape = "int" THEN IntEntry ELSE Entry("STANDALONE", pnl, bs)
\* the tag of `pnl` (`bs`) in an entry of the given shape
TagOf(shape) == IF shape = "int" THEN "absent" ELSE shape

\* the entries around the one a call reads
PadEntries == {EmptyEntry, IntEntry}
PadsFor(len) == IF len = 1 THEN {EmptyEntry} ELSE PadEntries

\* a list of len entries: e at position pos (1-based), pad elsewhere
Place(e, len, pos, pad) == Doc(List([i \in 1..len |-> IF i = pos THEN e ELSE pad]))

Layouts == {lp \in (1..MaxLen) \X (1..MaxLen) : lp[2] <= lp[1]}

\* the indices a call uses with an entry at position pos of len: the entry
\* counted from the front, or from the back, or an index off either end
Indices(len, pos) == {pos - 1, pos - 1 - len, len, -len - 1}

\* the entries the Selector tells apart
SelectorEntries ==
    {Entry(n, NoPnl("absent"), NoBs("absent")) : n \in Natures} \cup {IntEntry}

\* the document of the end-to-end example
ExampleEntry(nature, ni, rev) ==
    Entry(nature,
          Pnl(IntV(ni), Absent, Absent, Absent, LineItems(IntV(rev))),
          NoBs("absent"))
ExampleDoc ==
    Doc(List(<<ExampleEntry("CONSOLIDATED", 100, 1000),
               ExampleEntry("STANDALONE", 200, 800)>>))

SeqsUpTo(S, n) == UNION {[1..k -> S] : k \in 0..n}

SelectorDocs ==
    {NoDoc("none"), NoDoc("list"), Doc(NoList("absent")), Doc(NoList("none")),
     Doc(NoList("int")), ExampleDoc}
        \cup {Doc(List(s)) : s \in SeqsUpTo(SelectorEntries, MaxLen)}

\* the documents given to the orchestrator: those of the Selector, and one-entry
\* documents whose entry has a `pnl`
AnalyzeDocs ==
    SelectorDocs
        \cup {Doc(List(<<Entry(n, Pnl(ni, Absent, Absent, Absent, LineItems(rev)),
                              NoBs("absent"))>>)) :
                n \in Natures, ni \in NumOrAbsent, rev \in NumOrAbsent}

Uploads == {NoFile, BadJson} \cup {JsonFile(d) : d \in AnalyzeDocs}

(***************************************************************************)
(* The state machine: one call of one function.                            *)
(***************************************************************************)
Init ==
    /\ pc = "ready"
    /\ fn = ""
    /\ data = NoDoc("none")
    /\ financial_index = 0
    /\ ret = NoRet
    /\ calls = <<>>
    /\ upload = NoFile
    /\ response = NoResponse

Call_latest_financial_index ==
    /\ pc = "ready"
    /\ \E d \in SelectorDocs :
        /\ data' = d
        /\ financial_index' = 0
        /\ ret' = latest_financial_index(d)
    /\ fn' = "latest_financial_index"
    /\ pc' = "done"
    /\ calls' = <<>>
    /\ UNCHANGED <<upload, response>>

Call_profit_margin ==
    /\ pc = "ready"
    /\ \E shape \in Shapes, lay \in Layouts :
       \E ni \in Within(TagOf(shape), NumOrAbsent), lt \in TagsWithin(TagOf(shape)),
          pad \in PadsFor(lay[1]), i \in Indices(lay[1], lay[2]) :
       \E rev \in Within(lt, NumOrAbsent) :
          LET pnl == PnlOf(TagOf(shape), ni, Absent, Absent, Absent, LineItemsOf(lt, rev))
              d == Place(EntryOf(shape, pnl, NoBs("absent")), lay[1], lay[2], pad)
          IN  /\ data' = d
              /\ financial_index' = i
              /\ ret' = profit_margin(d, i)
    /\ fn' = "profit_margin"
    /\ pc' = "done"
    /\ calls' = <<>>
    /\ UNCHANGED <<upload, response>>

Call_total_revenue ==
    /\ pc = "ready"
    /\ \E shape \in Shapes, lay \in Layouts :
       \E lt \in TagsWithin(TagOf(shape)),
          pad \in PadsFor(lay[1]), i \in Indices(lay[1], lay[2]) :
       \E rev \in Within(lt, RevenueNums) :
          LET pnl == PnlOf(TagOf(shape), Absent, Absent, Absent, Absent,
                           LineItemsOf(lt, rev))
              d == Place(EntryOf(shape, pnl, NoBs("absent")), lay[1], lay[2], pad)
          IN  /\ data' = d
              /\ financial_index' = i
              /\ ret' = total_revenue(d, i)
    /\ fn' = "total_revenue"
    /\ pc' = "done"
    /\ calls' = <<>>
    /\ UNCHANGED <<upload, response>>

Call_total_borrowing ==
    /\ pc = "ready"
    /\ \E shape \in Shapes, lay \in Layouts :
       \E lt \in TagsWithin(TagOf(shape)), bt \in TagsWithin(TagOf(shape)),
          pad \in PadsFor(lay[1]), i \in Indices(lay[1], lay[2]) :
       \E rev \in Within(lt, NumOrAbsent),
          ltb \in Within(bt, NumOrAbsent), stb \in Within(bt, NumOrAbsent) :
          LET pnl == PnlOf(TagOf(shape), Absent, Absent, Absent, Absent,
                           LineItemsOf(lt, rev))
              d == Place(EntryOf(shape, pnl, BsOf(bt, ltb, stb)), lay[1], lay[2], pad)
          IN  /\ data' = d
              /\ financial_index' = i
              /\ ret' = total_borrowing(d, i)
    /\ fn' = "total_borrowing"
    /\ pc' = "done"
    /\ calls' = <<>>
    /\ UNCHANGED <<upload, response>>

Call_iscr ==
    /\ pc = "ready"
    /\ \E shape \in Shapes, lay \in Layouts :
       \E pbit \in Within(TagOf(shape), NumOrAbsent),
          dep \in Within(TagOf(shape), NumOrAbsent),
          ie \in Within(TagOf(shape), NumOrAbsent),
          pad \in PadsFor(lay[1]), i \in Indices(lay[1], lay[2]) :
          LET pnl == PnlOf(TagOf(shape), Absent, pbit, dep, ie, NoLineItems("absent"))
              d == Place(EntryOf(shape, pnl, NoBs("absent")), lay[1], lay[2], pad)
          IN  /\ data' = d
              /\ financial_index' = i
              /\ ret' = iscr(d, i)
    /\ fn' = "iscr"
    /\ pc' = "done"
    /\ calls' = <<>>
    /\ UNCHANGED <<upload, response>>

Call_iscr_flag ==
    /\ pc = "ready"
    /\ \E shape \in Shapes, lay \in Layouts :
       \E pbit \in Within(TagOf(shape), NumOrAbsent),
          dep \in Within(TagOf(shape), NumOrAbsent),
          ie \in Within(TagOf(shape), NumOrAbsent),
          pad \in PadsFor(lay[1]), i \in Indices(lay[1], lay[2]) :
          LET pnl == PnlOf(TagOf(shape), Absent, pbit, dep, ie, NoLineItems("absent"))
              d == Place(EntryOf(shape, pnl, NoBs("absent")), lay[1], lay[2], pad)
          IN  /\ data' = d
              /\ financial_index' = i
              /\ ret' = iscr_flag(d, i)
    /\ fn' = "iscr_flag"
    /\ pc' = "done"
    /\ calls' = <<>>
    /\ UNCHANGED <<upload, response>>

Call_total_revenue_5cr_flag ==
    /\ pc = "ready"
    /\ \E shape \in Shapes, lay \in Layouts :
       \E lt \in TagsWithin(TagOf(shape)),
          pad \in PadsFor(lay[1]), i \in Indices(lay[1], lay[2]) :
       \E rev \in Within(lt, RevenueNums) :
          LET pnl == PnlOf(TagOf(shape), Absent, Absent, Absent, Absent,
                           LineItemsOf(lt, rev))
              d == Place(EntryOf(shape, pnl, NoBs("absent")), lay[1], lay[2], pad)
          IN  /\ data' = d
              /\ financial_index' = i
              /\ ret' = total_revenue_5cr_flag(d, i)
    /\ fn' = "total_revenue_5cr_flag"
    /\ pc' = "done"
    /\ calls' = <<>>
    /\ UNCHANGED <<upload, response>>

Call_borrowing_to_revenue_flag ==
    /\ pc = "ready"
    /\ \E shape \in Shapes, lay \in Layouts :
       \E lt \in TagsWithin(TagOf(shape)), bt \in TagsWithin(TagOf(shape)),
          pad \in PadsFor(lay[1]), i \in Indices(lay[1], lay[2]) :
       \E rev \in Within(lt, NumOrAbsent),
          ltb \in Within(bt, NumOrAbsent), stb \in Within(bt, NumOrAbsent) :
          LET pnl == PnlOf(TagOf(shape), Absent, Absent, Absent, Absent,
                           LineItemsOf(lt, rev))
              d == Place(EntryOf(shape, pnl, BsOf(bt, ltb, stb)), lay[1], lay[2], pad)
          IN  /\ data' = d
              /\ financial_index' = i
              /\ ret' = borrowing_to_revenue_flag(d, i)
    /\ fn' = "borrowing_to_revenue_flag"
    /\ pc' = "done"
    /\ calls' = <<>>
    /\ UNCHANGED <<upload, response>>

Call_analyze_financial_data ==
    /\ pc = "ready"
    /\ \E d \in AnalyzeDocs :
        /\ data' = d
        /\ ret' = analyze_financial_data(d)
        /\ calls' = AnalyzeRun(d).calls
    /\ fn' = "analyze_financial_data"
    /\ pc' = "done"
    /\ financial_index' = 0
    /\ UNCHANGED <<upload, response>>

\* a POST to /submit
Call_submit_data ==
    /\ pc = "ready"
    /\ \E file \in Uploads :
        /\ upload' = file
        /\ data' = file.doc
        /\ calls' = IF file.t = "json" THEN AnalyzeRun(file.doc).calls ELSE <<>>
        /\ response' = submit_data(file)
    /\ fn' = "submit_data"
    /\ pc' = "done"
    /\ financial_index' = 0
    /\ ret' = NoRet

Next ==
    \/ Call_latest_financial_index
    \/ Call_profit_margin
    \/ Call_total_revenue
    \/ Call_total_borrowing
    \/ Call_iscr
    \/ Call_iscr_flag
    \/ Call_total_revenue_5cr_flag
    \/ Call_borrowing_to_revenue_flag
    \/ Call_analyze_financial_data
    \/ Call_submit_data

Spec == Init /\ [][Next]_vars

(***************************************************************************)
(* What the claims speak of, stated on the arguments of the call.          *)
(***************************************************************************)
Done(f) == pc = "done" /\ fn = f

Metrics == {"total_revenue", "profit_margin", "total_borrowing", "iscr"}
Classifiers == {"iscr_flag", "total_revenue_5cr_flag", "borrowing_to_revenue_flag"}

Min(S) == CHOOSE x \in S : \A y \in S : x <= y

\* `financials` is a sequence
IsList(d) == d.t = "dict" /\ d.financials.t = "list"
Items(d) == d.financials.items
AllMappings(d) == \A i \in 1..Len(Items(d)) : Items(d)[i].t = "dict"
HasMalformed(d) == \E i \in 1..Len(Items(d)) : Items(d)[i].t # "dict"
\* the document the Selector rejects
InvalidDoc(d) == d.t # "dict" \/ d.financials.t \in {"absent", "none"}

\* the positions (1-based) of the entries of nature STANDALONE
Standalone(d) ==
    {i \in 1..Len(Items(d)) : Items(d)[i].t = "dict" /\ Items(d)[i].nature = "STANDALONE"}
FirstStandaloneOr0(d) == IF Standalone(d) = {} THEN 0 ELSE Min(Standalone(d)) - 1

\* i is a valid index into `financials`, and the entry it names
ValidIndex(d, i) == IsList(d) /\ -Len(Items(d)) <= i /\ i < Len(Items(d))
EntryAt(d, i) == Items(d)[IF i < 0 THEN i + Len(Items(d)) + 1 ELSE i + 1]

\* no null stands in place of `pnl`, `lineItems` or `bs`
PnlWellFormed(e) ==
    e.t = "dict" /\ e.pnl.t \in {"absent", "dict"}
                 /\ e.pnl.lineItems.t \in {"absent", "dict"}
BsWellFormed(e) == e.t = "dict" /\ e.bs.t \in {"absent", "dict"}

\* a field, a missing one counting as 0
Field(v) == IF v.t = "num" THEN v ELSE Zero
RevenueOf(e) == Field(e.pnl.lineItems.netRevenue)
BorrowingsOf(e) == Add(Field(e.bs.longTermBorrowings), Field(e.bs.shortTermBorrowings))
\* the metrics of an entry by the formulas of the specification
MarginOf(e) ==
    IF IsZero(RevenueOf(e)) THEN Zero ELSE Div(Field(e.pnl.netIncome), RevenueOf(e))
RatioOf(e) == IF IsZero(RevenueOf(e)) THEN Zero ELSE Div(BorrowingsOf(e), RevenueOf(e))
\* for interestExpenses # -1
IscrOf(e) ==
    Div(Add(Add(Field(e.pnl.profitBeforeInterestAndTax), Field(e.pnl.depreciation)),
            IntV(1)),
        Add(Field(e.pnl.interestExpenses), IntV(1)))
\* q = a / b
IsQuotient(q, a, b) == q.t = "num" /\ q.n * b.n * a.d = a.n * q.d * b.d

(***************************************************************************)
(* C1: for a document whose `financials` is a sequence of mappings,        *)
(* latest_financial_index returns the smallest index of an entry of nature *)
(* STANDALONE, and 0 when there is none or the sequence is empty; for a    *)
(* non-empty sequence the value is a valid index.                          *)
(***************************************************************************)
C1_FirstStandalone ==
    (Done("latest_financial_index") /\ IsList(data) /\ AllMappings(data)) =>
        /\ ret.st = "return"
        /\ ret.val = IntV(FirstStandaloneOr0(data))
        /\ Len(Items(data)) > 0 =>
              ret.val.d = 1 /\ 0 <= ret.val.n /\ ret.val.n < Len(Items(data))

\* a later STANDALONE entry is found behind another entry, and the first of two wins
C1_Witness ==
    /\ Done("latest_financial_index") /\ IsList(data) /\ AllMappings(data)
    /\ Len(Items(data)) = 3
    /\ Items(data)[1].nature = "CONSOLIDATED"
    /\ Items(data)[2].nature = "STANDALONE"
    /\ Items(data)[3].nature = "STANDALONE"
    /\ ret = Return(IntV(1))

(***************************************************************************)
(* C2: latest_financial_index raises ValueError, and returns no index,     *)
(* exactly when the document is None, is no mapping, lacks `financials` or *)
(* has it null.                                                            *)
(***************************************************************************)
C2_InvalidInputExactly ==
    Done("latest_financial_index") =>
        /\ (ret.st = "raise" /\ ret.exc = "ValueError") <=> InvalidDoc(data)
        /\ InvalidDoc(data) => ret.val = NoneV
        /\ (IsList(data) /\ AllMappings(data)) => ret.exc # "ValueError"

C2_Witness ==
    /\ Done("latest_financial_index")
    /\ data.t = "dict" /\ data.financials.t = "none"
    /\ ret = Raise("ValueError", "Invalid data: 'financials' key is missing or None.")

(***************************************************************************)
(* C3: for a document the Selector accepts whose `financials` is a         *)
(* non-empty sequence of mappings, analyze_financial_data completes and    *)
(* yields latest_financial_index, total_revenue and profit_margin of the   *)
(* selected entry.                                                         *)
(***************************************************************************)
C3_OrchestratorResult ==
    (Done("analyze_financial_data") /\ IsList(data) /\ AllMappings(data)
        /\ Len(Items(data)) > 0
        /\ PnlWellFormed(EntryAt(data, FirstStandaloneOr0(data)))) =>
        /\ ret.st = "return"
        /\ ret.val.json.latest_financial_index = IntV(FirstStandaloneOr0(data))
        /\ ret.val.json.total_revenue = RevenueOf(EntryAt(data, FirstStandaloneOr0(data)))
        /\ ret.val.json.profit_margin = MarginOf(EntryAt(data, FirstStandaloneOr0(data)))

(***************************************************************************)
(* C4: on a valid index each classifier returns a flag decided by its      *)
(* metric and threshold alone (iscr >= 2 GREEN else RED; revenue >=        *)
(* 50,000,000 GREEN else RED; borrowings ratio <= 0.25 GREEN else AMBER)   *)
(* and no classifier call ends in an error.                                *)
(***************************************************************************)
C4_Classifiers ==
    (pc = "done" /\ fn \in Classifiers /\ ValidIndex(data, financial_index)
        /\ PnlWellFormed(EntryAt(data, financial_index))
        /\ BsWellFormed(EntryAt(data, financial_index))
        /\ ~IsZero(IscrDenominator(EntryAt(data, financial_index).pnl))) =>
        /\ ret.st = "return"
        /\ ret.val.t = "flag"
        /\ fn = "iscr_flag" =>
              ret.val.s = IF Geq(IscrOf(EntryAt(data, financial_index)), IntV(IscrGreenMin))
                          THEN "GREEN" ELSE "RED"
        /\ fn = "total_revenue_5cr_flag" =>
              ret.val.s = IF Geq(RevenueOf(EntryAt(data, financial_index)),
                                 IntV(RevenueGreenMin))
                          THEN "GREEN" ELSE "RED"
        /\ fn = "borrowing_to_revenue_flag" =>
              ret.val.s = IF Leq(RatioOf(EntryAt(data, financial_index)), BorrowingGreenMax)
                          THEN "GREEN" ELSE "AMBER"

(***************************************************************************)
(* C5: when netRevenue of the entry is 0 or absent, profit_margin and      *)
(* total_borrowing return exactly 0 and raise no division error whatever   *)
(* netIncome and the borrowings are; otherwise they return netIncome /     *)
(* netRevenue and (longTermBorrowings + shortTermBorrowings) / netRevenue. *)
(* (Entries as in the data model: no null in place of a structure.)        *)
(***************************************************************************)
C5_ZeroRevenueGuard ==
    /\ (pc = "done" /\ fn \in {"profit_margin", "total_borrowing"}) =>
          ret.exc # "ZeroDivisionError"
    /\ (Done("profit_margin") /\ ValidIndex(data, financial_index)
          /\ PnlWellFormed(EntryAt(data, financial_index))) =>
          LET e == EntryAt(data, financial_index)
          IN  /\ ret.st = "return"
              /\ IsZero(RevenueOf(e)) => ret.val = Zero
              /\ ~IsZero(RevenueOf(e)) =>
                    IsQuotient(ret.val, Field(e.pnl.netIncome), RevenueOf(e))
    /\ (Done("total_borrowing") /\ ValidIndex(data, financial_index)
          /\ PnlWellFormed(EntryAt(data, financial_index))
          /\ BsWellFormed(EntryAt(data, financial_index))) =>
          LET e == EntryAt(data, financial_index)
          IN  /\ ret.st = "return"
              /\ IsZero(RevenueOf(e)) => ret.val = Zero
              /\ ~IsZero(RevenueOf(e)) =>
                    IsQuotient(ret.val, BorrowingsOf(e), RevenueOf(e))

\* a non-zero netIncome over a revenue of 0 gives 0
C5_Witness ==
    /\ Done("profit_margin") /\ ValidIndex(data, financial_index)
    /\ PnlWellFormed(EntryAt(data, financial_index))
    /\ EntryAt(data, financial_index).pnl.netIncome = IntV(1)
    /\ EntryAt(data, financial_index).pnl.lineItems.netRevenue = IntV(0)
    /\ ret = Return(Zero)

(***************************************************************************)
(* C6: for every numeric interestExpenses, negative ones included, iscr    *)
(* divides by a denominator of at least 1 and raises no division error.    *)
(***************************************************************************)
C6_IscrDenominator ==
    (Done("iscr") /\ ValidIndex(data, financial_index)
        /\ PnlWellFormed(EntryAt(data, financial_index))) =>
        /\ ret.exc # "ZeroDivisionError"
        /\ Geq(IscrDenominator(EntryAt(data, financial_index).pnl), IntV(1))

(***************************************************************************)
(* C7: when `pnl`, `bs`, `lineItems` or a numeric field of the selected    *)
(* entry is missing, or `pnl`, `bs` or `lineItems` is null, the four       *)
(* metrics return a value, the missing field counting as 0.                *)
(***************************************************************************)
C7_LenientDefaults ==
    (pc = "done" /\ fn \in Metrics /\ ValidIndex(data, financial_index)
        /\ EntryAt(data, financial_index).t = "dict"
        /\ ~IsZero(IscrDenominator(EntryAt(data, financial_index).pnl))) =>
        /\ ret.st = "return"
        /\ fn = "total_revenue" => ret.val = RevenueOf(EntryAt(data, financial_index))
        /\ fn = "profit_margin" => ret.val = MarginOf(EntryAt(data, financial_index))
        /\ fn = "total_borrowing" => ret.val = RatioOf(EntryAt(data, financial_index))
        /\ fn = "iscr" => ret.val = IscrOf(EntryAt(data, financial_index))

(***************************************************************************)
(* C8: for a document that is None, no mapping, or without a non-null      *)
(* `financials`, analyze_financial_data ends with the Selector's           *)
(* ValueError, raised before any metric is evaluated and with no result,   *)
(* and submit_data answers it with status 400 and the Selector's message.  *)
(***************************************************************************)
SelectorMessage(d) ==
    IF d.t # "dict" THEN "Invalid data: expected a dictionary."
    ELSE "Invalid data: 'financials' key is missing or None."

C8_InvalidInputPropagates ==
    /\ (Done("analyze_financial_data") /\ InvalidDoc(data)) =>
          /\ ret = Raise("ValueError", SelectorMessage(data))
          /\ calls = <<"latest_financial_index">>
    /\ (Done("submit_data") /\ upload.t = "json" /\ InvalidDoc(upload.doc)) =>
          /\ response.status = 400
          /\ response.body = SelectorMessage(upload.doc)
          /\ calls = <<"latest_financial_index">>

C8_Witness ==
    /\ Done("submit_data") /\ upload.t = "json"
    /\ upload.doc.t = "dict" /\ upload.doc.financials.t = "absent"
    /\ response.status = 400
    /\ response.body = "Invalid data: 'financials' key is missing or None."

(***************************************************************************)
(* C9: in submit_data an upload that is no JSON is answered by the         *)
(* JSONDecodeError handler with "Invalid JSON format" and status 400,      *)
(* never by the handler of ValueError.                                     *)
(***************************************************************************)
C9_DecodeErrorHandler ==
    (Done("submit_data") /\ upload.t = "badjson") =>
        /\ response.handler = "JSONDecodeError"
        /\ response.body = "Invalid JSON format"
        /\ response.status = 400

(***************************************************************************)
(* C10 as claimed: for a `financials` sequence holding an entry that is no *)
(* mapping, the Selector raises no error and returns the index of the      *)
(* first STANDALONE mapping entry, else 0.                                 *)
(***************************************************************************)
C10_SelectorNeverFails ==
    (Done("latest_financial_index") /\ IsList(data) /\ HasMalformed(data)) =>
        ret = Return(IntV(FirstStandaloneOr0(data)))

(***************************************************************************)
(* C10 as amended: the Selector raises no ValueError for such a sequence;  *)
(* it returns the index of the first STANDALONE entry when every entry     *)
(* before it is a mapping and otherwise fails itself with AttributeError   *)
(* at the first entry that is no mapping.  A metric called with the index  *)
(* of an entry that is no mapping fails with AttributeError; called with   *)
(* the index of a mapping it is not affected by the other entries.         *)
(***************************************************************************)
\* the positions where the loop of the Selector ends
Stops(d) ==
    {i \in 1..Len(Items(d)) : Items(d)[i].t # "dict" \/ Items(d)[i].nature = "STANDALONE"}

\* the metric f on document d at index i
Metric(f, d, i) ==
    CASE f = "total_revenue" -> total_revenue(d, i)
      [] f = "profit_margin" -> profit_margin(d, i)
      [] f = "total_borrowing" -> total_borrowing(d, i)
      [] f = "iscr" -> iscr(d, i)

C10_MalformedEntries ==
    /\ (Done("latest_financial_index") /\ IsList(data) /\ HasMalformed(data)) =>
          LET k == Min(Stops(data))
          IN  IF Items(data)[k].t = "dict"
              THEN ret = Return(IntV(k - 1))
              ELSE ret.st = "raise" /\ ret.exc = "AttributeError"
    /\ (pc = "done" /\ fn \in Metrics /\ ValidIndex(data, financial_index)
          /\ EntryAt(data, financial_index).t # "dict") =>
          ret.st = "raise" /\ ret.exc = "AttributeError"
    /\ (pc = "done" /\ fn \in Metrics /\ ValidIndex(data, financial_index)
          /\ HasMalformed(data) /\ EntryAt(data, financial_index).t = "dict") =>
          ret = Metric(fn, Doc(List(<<EntryAt(data, financial_index)>>)), 0)

\* the Selector itself fails at an entry that is no mapping
C10_Witness ==
    /\ Done("latest_financial_index") /\ IsList(data)
    /\ Len(Items(data)) = 3
    /\ Items(data)[1].t = "dict" /\ Items(data)[1].nature = "CONSOLIDATED"
    /\ Items(data)[2].t # "dict"
    /\ Items(data)[3].t = "dict" /\ Items(data)[3].nature = "STANDALONE"
    /\ ret.st = "raise" /\ ret.exc = "AttributeError"

====
